---- MODULE Spec2Model ----
(***************************************************************************)
(* State-machine model of cli_parser.py (class CLIParser and the           *)
(* CLIArgument / CLIFlag definitions).                                      *)
(*                                                                          *)
(* Strings are sequences of one-character strings, so that startswith,     *)
(* slicing and int() are computed as the code computes them.               *)
(* Python values are tagged records so that None, booleans, integers,      *)
(* strings and lists stay distinct values.                                  *)
(***************************************************************************)
EXTENDS Integers, Sequences, FiniteSets, TLC

(***************************************************************************)
(* Bounds of the model.                                                     *)
(***************************************************************************)
\* total number of add_argument / add_flag calls in a run
MaxRegs == 2
\* total number of command-line tokens consumed over all parse calls of a run
MaxTokens == 2
\* the same total in the runs that build two parser instances
MaxTokensPair == 2

(***************************************************************************)
(* Python values.                                                           *)
(***************************************************************************)
PyNone == [tag |-> "none", b |-> FALSE, i |-> 0, s |-> <<>>, l |-> <<>>]
PyBool(x) == [tag |-> "bool", b |-> x, i |-> 0, s |-> <<>>, l |-> <<>>]
PyInt(x) == [tag |-> "int", b |-> FALSE, i |-> x, s |-> <<>>, l |-> <<>>]
PyStr(x) == [tag |-> "str", b |-> FALSE, i |-> 0, s |-> x, l |-> <<>>]
PyList(x) == [tag |-> "list", b |-> FALSE, i |-> 0, s |-> <<>>, l |-> x]

\* bool(value): the truth value Python gives a value in `elif results_dict.get(..)`
Truthy(v) ==
    CASE v.tag = "none" -> FALSE
      [] v.tag = "bool" -> v.b
      [] v.tag = "int" -> v.i # 0
      [] v.tag = "str" -> v.s # <<>>
      [] v.tag = "list" -> v.l # <<>>

(***************************************************************************)
(* Strings and tokens.                                                      *)
(***************************************************************************)
Digits == <<"0", "1", "2", "3", "4", "5", "6", "7", "8", "9">>
IsDigit(c) == \E k \in 1..Len(Digits) : Digits[k] = c
DigitVal(c) == (CHOOSE k \in 1..Len(Digits) : Digits[k] = c) - 1

\* token.startswith(prefix)
StartsWith(token, prefix) ==
    /\ Len(token) >= Len(prefix)
    /\ SubSeq(token, 1, Len(prefix)) = prefix

\* token[k:] with k counted as in Python (0-based start)
Slice(token, k) == SubSeq(token, k + 1, Len(token))

\* str.strip() of whitespace, as int() applies it to its argument
RECURSIVE LStrip(_)
LStrip(t) == IF t # <<>> /\ Head(t) = " " THEN LStrip(Tail(t)) ELSE t
RECURSIVE RStrip(_)
RStrip(t) ==
    IF t # <<>> /\ t[Len(t)] = " " THEN RStrip(SubSeq(t, 1, Len(t) - 1)) ELSE t
Strip(t) == RStrip(LStrip(t))

\* the digit groups of an int() literal: digits, single underscores only
\* between two digits
IsIntBody(t) ==
    /\ t # <<>>
    /\ \A k \in 1..Len(t) : IsDigit(t[k]) \/ t[k] = "_"
    /\ IsDigit(t[1])
    /\ IsDigit(t[Len(t)])
    /\ \A k \in 1..(Len(t) - 1) : ~(t[k] = "_" /\ t[k + 1] = "_")

RECURSIVE BodyValue(_, _)
BodyValue(t, acc) ==
    IF t = <<>> THEN acc
    ELSE IF Head(t) = "_" THEN BodyValue(Tail(t), acc)
    ELSE BodyValue(Tail(t), 10 * acc + DigitVal(Head(t)))

\* the builtin int(token): surrounding whitespace stripped, an optional sign,
\* then digit groups; ok = FALSE stands for ValueError
PyIntOf(token) ==
    LET t == Strip(token)
        signed == t # <<>> /\ (Head(t) = "+" \/ Head(t) = "-")
        body == IF signed THEN Tail(t) ELSE t
    IN IF IsIntBody(body)
       THEN [ok |-> TRUE,
             val |-> PyInt(IF signed /\ Head(t) = "-"
                           THEN 0 - BodyValue(body, 0)
                           ELSE BodyValue(body, 0))]
       ELSE [ok |-> FALSE, val |-> PyNone]

(***************************************************************************)
(* The names, definitions and tokens the model draws its inputs from.       *)
(***************************************************************************)
NameN == <<"n">>
NameD == <<"d">>
NameH == <<"h">>
NameZ == <<"z">>
\* names a flag may be registered under / an argument may be registered under
FlagNames == {NameH, NameN}
ArgNames == {NameN, NameD}
\* names asked of parser[name]; NameZ is never registered
QueryNames == {NameH, NameN, NameZ}

\* CLIArgument(arg_type=.., nargs=.., switch=..) calls
ArgDefs ==
    { [arg_type |-> "int", nargs |-> 1, switch |-> TRUE],
      [arg_type |-> "int", nargs |-> 2, switch |-> FALSE],
      [arg_type |-> "str", nargs |-> 1, switch |-> FALSE] }

Long(name) == <<"-", "-">> \o name
Short(chars) == <<"-">> \o chars

TokenPool ==
    { Long(NameH), Long(NameN), Short(<<"n", "z">>),
      <<"2">>, <<"+", "1">>, <<"1", "a">> }

\* the token lists of at most n tokens
TokenSeqs(n) == UNION { [1..m -> TokenPool] : m \in 0..n }

Classes == {"ParserA", "ParserB"}
Instances == {"p1", "p2"}
ClassOf(p) == IF p = "p1" THEN "ParserA" ELSE "ParserB"
NoInst == "none"
NoGet == [inst |-> NoInst, key |-> <<>>]
NoCast == [token |-> <<>>, arg_type |-> "none", ok |-> FALSE, val |-> PyNone]
EmptyDict == [k \in {} |-> PyNone]

(***************************************************************************)
(* State.                                                                   *)
(***************************************************************************)
VARIABLES
    arguments,     \* CLIParser.arguments: the class-level dict, as the sequence
                   \* of its items [key, obj] in insertion order
    flags,         \* CLIParser.flags: the class-level dict, as its key set
    heap,          \* the CLIArgument objects; an object's identity is its index
    constructed,   \* the parser instances whose __init__ has run
    non_switches,  \* self._non_switches of each instance: items [key, obj]
    parsed,        \* self._results of each instance (a dict as a function)
    cur,           \* the instance whose parse call is running, or NoInst
    results,       \* the local dict `results` of the running _parse
    scanned,       \* the tokens the running _parse has taken from token_stream
    fresh,         \* whether no registered argument had consumed anything
                   \* when the running parse call began
    lastCast,      \* the last _cast_to_desired_type call and its outcome
    warnings,      \* the logging.warning lines of the step just taken
    status,        \* "running", or "exited" once the process has terminated
    err,           \* what terminated the process
    got,           \* the parser[key] access just made, or NoGet
    ret,           \* the value the operation just made returned
    loop_token,    \* the loop variable `token` of the running _parse
    scope,         \* the run: the instances it may build, the tokens it may feed
    regs,          \* number of add_argument / add_flag calls so far
    used           \* number of tokens consumed so far

vars == <<arguments, flags, heap, constructed, non_switches, parsed, cur,
          results, scanned, fresh, lastCast, warnings, status, err, got, ret,
          loop_token, scope, regs, used>>

(***************************************************************************)
(* Dictionaries.                                                            *)
(***************************************************************************)
\* d[key] = value on a dict kept as a function
DictSet(d, key, value) ==
    [k \in (DOMAIN d) \cup {key} |-> IF k = key THEN value ELSE d[k]]

\* d.get(key)
DictGet(d, key) == IF key \in DOMAIN d THEN d[key] ELSE PyNone

\* the keys of the class-level arguments dict
ArgKeys(args) == { args[k].key : k \in 1..Len(args) }

\* arguments[key]
ArgLookup(args, key) ==
    args[CHOOSE k \in 1..Len(args) : args[k].key = key].obj

\* arguments[key] = obj: an existing key keeps its place in the insertion order
ArgInsert(args, key, obj) ==
    IF key \in ArgKeys(args)
    THEN [k \in 1..Len(args) |->
            IF args[k].key = key THEN [key |-> key, obj |-> obj] ELSE args[k]]
    ELSE Append(args, [key |-> key, obj |-> obj])

\* cls.arguments / cls.flags: the attribute is found on CLIParser itself, the
\* one dict every class and instance shares
ArgumentsOf(cls) == arguments
FlagsOf(cls) == flags

\* CLIArgument.satisfied
satisfied(arg) == arg.current_args >= arg.nargs

\* {key: value for key, value in self.arguments.items() if not value.switch}
RECURSIVE NonSwitches(_, _)
NonSwitches(args, h) ==
    IF args = <<>> THEN <<>>
    ELSE IF h[Head(args).obj].switch
         THEN NonSwitches(Tail(args), h)
         ELSE <<Head(args)>> \o NonSwitches(Tail(args), h)

(***************************************************************************)
(* The parsing core.  A scan state st is the record                         *)
(*   [results, heap, status, err, lastCast]                                 *)
(* of what one step of the token loop reads and writes.                     *)
(***************************************************************************)
\* _cast_to_desired_type: arg_type is a class (int or str), so neither
\* isinstance(arg_type, str) nor isinstance(arg_type, int) holds and the
\* branch taken is always the last one, arg_type(token)
cast_to_desired_type(token, arg) ==
    IF arg.arg_type = "int" THEN PyIntOf(token)
    ELSE [ok |-> TRUE, val |-> PyStr(token)]

\* list.append(value) on whatever results_dict[arg.name] holds: only a list
\* has the method
CanAppend(v) == v.tag = "list"

\* _set_argument_value, with obj the index of arg in the heap
set_argument_value(st, value, obj) ==
    LET arg == st.heap[obj]
        old == DictGet(st.results, arg.name)
        bump == [st.heap EXCEPT ![obj].current_args = @ + 1]
    IN IF arg.nargs = 1
       THEN [st EXCEPT !.results = DictSet(st.results, arg.name, value),
                       !.heap = bump]
       ELSE IF Truthy(old)
       THEN IF CanAppend(old)
            THEN [st EXCEPT !.results =
                               DictSet(st.results, arg.name,
                                       PyList(Append(old.l, value))),
                            !.heap = bump]
            ELSE [st EXCEPT !.status = "exited", !.err = "AttributeError"]
       ELSE [st EXCEPT !.results =
                          DictSet(st.results, arg.name, PyList(<<value>>)),
                       !.heap = bump]

\* _cast_argument_and_set
cast_argument_and_set(st, token, obj) ==
    LET arg == st.heap[obj]
        c == cast_to_desired_type(token, arg)
        seen == [token |-> token, arg_type |-> arg.arg_type,
                 ok |-> c.ok, val |-> c.val]
    IN IF c.ok
       THEN set_argument_value([st EXCEPT !.lastCast = seen], c.val, obj)
       ELSE [st EXCEPT !.lastCast = seen, !.status = "exited",
                       !.err = "cannot be converted"]

\* the loop `for i in range(argument.nargs)` over the tokens vs that
\* next(token_stream) hands out; it stops where the process terminates
RECURSIVE TakeValues(_, _, _)
TakeValues(st, vs, obj) ==
    IF vs = <<>> \/ st.status # "running" THEN st
    ELSE TakeValues(cast_argument_and_set(st, Head(vs), obj), Tail(vs), obj)

\* the long-form branch for a registered argument: vs are the tokens left in
\* the stream, at most nargs of them
LongArgument(st, remainder, vs, args) ==
    LET obj == ArgLookup(args, remainder)
        after == TakeValues(st, vs, obj)
    IN IF after.status = "running" /\ Len(vs) < st.heap[obj].nargs
       THEN [after EXCEPT !.status = "exited", !.err = "ended abruptly"]
       ELSE after

\* a faulty short-form branch, which sets the registered flags only
RECURSIVE ShortFormRegisteredOnly(_, _)
ShortFormRegisteredOnly(res, chars) ==
    IF chars = <<>> THEN res
    ELSE ShortFormRegisteredOnly(
             IF <<Head(chars)>> \in flags
             THEN DictSet(res, <<Head(chars)>>, PyBool(TRUE))
             ELSE res,
             Tail(chars))

\* the short-form branch: every character after the hyphen is set to True
RECURSIVE ShortForm(_, _)
ShortForm(res, chars) ==
    IF chars = <<>> THEN res
    ELSE ShortForm(DictSet(res, <<Head(chars)>>, PyBool(TRUE)), Tail(chars))

\* the characters of a short-form token that logging.warning reports
UnrecognisedFlags(chars, fl) ==
    { <<"unrecognised flag", <<chars[k]>>>> :
        k \in { j \in 1..Len(chars) : <<chars[j]>> \notin fl } }

\* the bare-token branch: the first item of self._non_switches that is not
\* satisfied, or 0 when the for loop runs into its else clause
FirstUnsatisfied(ns, h) ==
    IF \E k \in 1..Len(ns) : ~satisfied(h[ns[k].obj])
    THEN ns[CHOOSE k \in 1..Len(ns) :
              /\ ~satisfied(h[ns[k].obj])
              /\ \A j \in 1..(k - 1) : satisfied(h[ns[j].obj])].obj
    ELSE 0

BareToken(st, token, ns) ==
    LET obj == FirstUnsatisfied(ns, st.heap)
    IN IF obj # 0
       THEN cast_argument_and_set(st, token, obj)
       ELSE [st EXCEPT !.status = "exited", !.err = "no remaining arguments"]

\* results = {flag: False ...} | {arg: None ...}: the right operand wins
InitialResults(fl, args) ==
    [k \in fl \cup ArgKeys(args) |->
        IF k \in ArgKeys(args) THEN PyNone ELSE PyBool(FALSE)]

\* _post_parsing_check: the arguments it warns about
UnderSatisfied(args, h) ==
    { <<"did not receive enough", h[args[k].obj].name>> :
        k \in { j \in 1..Len(args) : ~satisfied(h[args[j].obj]) } }

\* a faulty membership test, `self._results.get(key)`, which takes a key
\* holding a false value for a missing one
HasResultTruthy(res, key) == key \in DOMAIN res /\ Truthy(res[key])

\* `key in self._results`
HasResult(res, key) == key \in DOMAIN res

(***************************************************************************)
(* Initial state: the module has been imported, nothing is registered and   *)
(* no parser exists.                                                         *)
(***************************************************************************)
Start ==
    /\ arguments = <<>>
    /\ flags = {}
    /\ heap = <<>>
    /\ constructed = {}
    /\ non_switches = [p \in Instances |-> <<>>]
    /\ parsed = [p \in Instances |-> EmptyDict]
    /\ cur = NoInst
    /\ results = EmptyDict
    /\ scanned = <<>>
    /\ fresh = TRUE
    /\ lastCast = NoCast
    /\ warnings = {}
    /\ status = "running"
    /\ err = "none"
    /\ got = NoGet
    /\ ret = PyNone
    /\ loop_token = <<>>
    /\ regs = 0
    /\ used = 0

\* a program that builds one parser
Init == Start /\ scope = [instances |-> {"p1"}, tokens |-> MaxTokens]

\* a program that builds two parsers, of two classes
InitPair == Start /\ scope = [instances |-> Instances, tokens |-> MaxTokensPair]

\* what every operation other than parser[key] leaves behind
Returned == got' = NoGet /\ ret' = PyNone

\* a step that logs no warning
Quiet == warnings' = {}

\* the program is between two calls
Idle == status = "running" /\ cur = NoInst

\* the scan state of the running _parse
Now == [results |-> results, heap |-> heap, status |-> status, err |-> err,
        lastCast |-> lastCast]

\* a step of the token loop that took the tokens ts and ended in st
Scanned(ts, st) ==
    /\ loop_token' = Head(ts)
    /\ results' = st.results
    /\ heap' = st.heap
    /\ status' = st.status
    /\ err' = st.err
    /\ lastCast' = st.lastCast
    /\ scanned' = scanned \o ts
    /\ used' = used + Len(ts)
    /\ Returned
    /\ UNCHANGED <<arguments, flags, constructed, non_switches, parsed, cur,
                   fresh, scope, regs>>

(***************************************************************************)
(* Registration.  The decorator `parser` sets value.name = key and then     *)
(* calls cls.add_argument / cls.add_flag for one annotation of class cls.   *)
(***************************************************************************)
add_argument(cls, name, def) ==
    /\ Idle
    /\ Quiet
    /\ regs < MaxRegs
    /\ heap' = Append(heap, [name |-> name, arg_type |-> def.arg_type,
                             nargs |-> def.nargs, switch |-> def.switch,
                             current_args |-> 0])
    /\ arguments' = ArgInsert(ArgumentsOf(cls), name, Len(heap) + 1)
    /\ regs' = regs + 1
    /\ Returned
    /\ UNCHANGED <<flags, constructed, non_switches, parsed, cur, results,
                   scanned, fresh, lastCast, status, err, loop_token, scope, used>>

add_flag(cls, name) ==
    /\ Idle
    /\ Quiet
    /\ regs < MaxRegs
    /\ flags' = FlagsOf(cls) \cup {name}
    /\ regs' = regs + 1
    /\ Returned
    /\ UNCHANGED <<arguments, heap, constructed, non_switches, parsed, cur,
                   results, scanned, fresh, lastCast, status, err, loop_token,
                   scope, used>>

(***************************************************************************)
(* CLIParser.__init__                                                        *)
(***************************************************************************)
init(p) ==
    /\ Idle
    /\ Quiet
    /\ p \in scope.instances
    /\ p \notin constructed
    /\ constructed' = constructed \cup {p}
    /\ non_switches' =
          [non_switches EXCEPT ![p] = NonSwitches(ArgumentsOf(ClassOf(p)), heap)]
    /\ parsed' = [parsed EXCEPT ![p] = EmptyDict]
    /\ Returned
    /\ UNCHANGED <<arguments, flags, heap, cur, results, scanned, fresh,
                   lastCast, status, err, loop_token, scope, regs, used>>

(***************************************************************************)
(* CLIParser.parse: the call enters _parse, takes the tokens one iteration  *)
(* of the loop at a time, and returns when the token list is used up.       *)
(***************************************************************************)
parse_begin(p) ==
    /\ Idle
    /\ p \in constructed
    /\ cur' = p
    /\ results' = InitialResults(FlagsOf(ClassOf(p)), ArgumentsOf(ClassOf(p)))
    /\ scanned' = <<>>
    /\ fresh' = \A k \in 1..Len(heap) : heap[k].current_args = 0
    /\ lastCast' = NoCast
    /\ Quiet
    /\ Returned
    /\ loop_token' = <<>>
    /\ UNCHANGED <<arguments, flags, heap, constructed, non_switches, parsed,
                   status, err, scope, regs, used>>

Scanning(p) == status = "running" /\ cur = p

\* --name where name is a flag
scan_long_flag(p, token) ==
    /\ Scanning(p)
    /\ used + 1 <= scope.tokens
    /\ StartsWith(token, <<"-", "-">>)
    /\ Slice(token, 2) \in flags
    /\ Scanned(<<token>>,
               [Now EXCEPT !.results =
                   DictSet(results, Slice(token, 2), PyBool(TRUE))])
    /\ Quiet

\* --name where name is neither a flag nor an argument
scan_long_unrecognised(p, token) ==
    /\ Scanning(p)
    /\ used + 1 <= scope.tokens
    /\ StartsWith(token, <<"-", "-">>)
    /\ Slice(token, 2) \notin flags
    /\ Slice(token, 2) \notin ArgKeys(arguments)
    /\ Scanned(<<token>>,
               [Now EXCEPT !.status = "exited",
                           !.err = "unrecognised argument"])
    /\ Quiet

\* --name where name is an argument; vs are the tokens the inner loop takes:
\* nargs of them, or fewer when a value ends the process or the list ends
scan_long_argument(p, token) ==
    /\ Scanning(p)
    /\ used + 1 <= scope.tokens
    /\ StartsWith(token, <<"-", "-">>)
    /\ Slice(token, 2) \notin flags
    /\ Slice(token, 2) \in ArgKeys(arguments)
    /\ LET obj == ArgLookup(arguments, Slice(token, 2))
       IN \E vs \in TokenSeqs(heap[obj].nargs) :
             /\ used + 1 + Len(vs) <= scope.tokens
             /\ vs # <<>> =>
                  TakeValues(Now, SubSeq(vs, 1, Len(vs) - 1), obj).status
                      = "running"
             /\ Scanned(<<token>> \o vs,
                        LongArgument(Now, Slice(token, 2), vs, arguments))
    /\ Quiet

\* -xyz
scan_short(p, token) ==
    /\ Scanning(p)
    /\ used + 1 <= scope.tokens
    /\ ~StartsWith(token, <<"-", "-">>)
    /\ StartsWith(token, <<"-">>)
    /\ Scanned(<<token>>,
               [Now EXCEPT !.results = ShortForm(results, Slice(token, 1))])
    /\ warnings' = UnrecognisedFlags(Slice(token, 1), flags)

\* a token without a leading hyphen
scan_bare(p, token) ==
    /\ Scanning(p)
    /\ used + 1 <= scope.tokens
    /\ ~StartsWith(token, <<"-">>)
    /\ Scanned(<<token>>, BareToken(Now, token, non_switches[p]))
    /\ Quiet

\* the token list is used up: _parse returns results, parse stores them and
\* runs _post_parsing_check
parse_return(p) ==
    /\ Scanning(p)
    /\ parsed' = [parsed EXCEPT ![p] = results]
    /\ warnings' = UnderSatisfied(arguments, heap)
    /\ cur' = NoInst
    /\ fresh' = TRUE
    /\ results' = EmptyDict
    /\ scanned' = <<>>
    /\ lastCast' = NoCast
    /\ Returned
    /\ loop_token' = <<>>
    /\ UNCHANGED <<arguments, flags, heap, constructed, non_switches,
                   status, err, scope, regs, used>>

(***************************************************************************)
(* CLIParser.__getitem__                                                     *)
(***************************************************************************)
getitem(p, key) ==
    /\ Idle
    /\ Quiet
    /\ p \in constructed
    /\ got' = [inst |-> p, key |-> key]
    /\ IF HasResult(parsed[p], key)
       THEN /\ ret' = parsed[p][key]
            /\ UNCHANGED <<status, err>>
       ELSE /\ ret' = PyNone
            /\ status' = "exited"
            /\ err' = "does not have parameter"
    /\ UNCHANGED <<arguments, flags, heap, constructed, non_switches, parsed,
                   cur, results, scanned, fresh, lastCast, loop_token, scope, regs,
                   used>>

Next ==
    \/ \E cls \in Classes, name \in ArgNames, def \in ArgDefs :
          add_argument(cls, name, def)
    \/ \E cls \in Classes, name \in FlagNames : add_flag(cls, name)
    \/ \E p \in Instances : init(p)
    \/ \E p \in Instances : parse_begin(p)
    \/ \E p \in Instances, token \in TokenPool : scan_long_flag(p, token)
    \/ \E p \in Instances, token \in TokenPool :
          scan_long_unrecognised(p, token)
    \/ \E p \in Instances, token \in TokenPool :
          scan_long_argument(p, token)
    \/ \E p \in Instances, token \in TokenPool : scan_short(p, token)
    \/ \E p \in Instances, token \in TokenPool : scan_bare(p, token)
    \/ \E p \in Instances : parse_return(p)
    \/ \E p \in Instances, key \in QueryNames : getitem(p, key)

Spec == Init /\ [][Next]_vars

SpecPair == InitPair /\ [][Next]_vars

(***************************************************************************)
(* Vocabulary of the properties.                                            *)
(***************************************************************************)
Running == status = "running"
InParse == cur # NoInst
Registered == ArgKeys(arguments)
\* the registered non-switch definitions, in insertion order
RegisteredNonSwitch == NonSwitches(arguments, heap)
IsLong(t) == StartsWith(t, <<"-", "-">>)
IsShort(t) == StartsWith(t, <<"-">>) /\ ~IsLong(t)
IsBare(t) == ~StartsWith(t, <<"-">>)
\* a token made of decimal digits only, and the number it denotes
AllDigits(t) == t # <<>> /\ \A k \in 1..Len(t) : IsDigit(t[k])
Decimal(t) == PyInt(BodyValue(t, 0))
\* a value an argument may hold: a cast value or a list of cast values
IsCastValue(v) == v.tag \in {"int", "str"}
IsArgumentValue(v) ==
    \/ v.tag = "none"
    \/ IsCastValue(v)
    \/ v.tag = "list" /\ \A k \in 1..Len(v.l) : IsCastValue(v.l[k])

(***************************************************************************)
(* C9.  At every parse call the arguments eligible to receive bare tokens   *)
(* are exactly the non-switch definitions registered at that moment, in     *)
(* insertion order.                                                          *)
(***************************************************************************)
C9_EligibleAreRegistered ==
    InParse => non_switches[cur] = RegisteredNonSwitch

(***************************************************************************)
(* C2.  A parse call on an instance that has parsed before starts with no   *)
(* argument counted as satisfied: nothing consumed in the earlier call is   *)
(* carried over.                                                             *)
(***************************************************************************)
C2_NoCarryOver ==
    (InParse /\ scanned = <<>> /\ DOMAIN parsed[cur] # {}) =>
        \A k \in 1..Len(heap) : ~satisfied(heap[k])

(***************************************************************************)
(* C3.  For any token list the results hold a boolean for every flag and    *)
(* null, a cast value or a list of cast values for every argument; a        *)
(* short-form cluster never changes an argument's entry.  (A name that is   *)
(* both a flag and an argument is held to the argument's form.)  The        *)
(* results of the scan so far are the results of parsing the tokens so far. *)
(***************************************************************************)
C3_ResultsTyped ==
    (InParse /\ Running) =>
        \A k \in DOMAIN results :
            /\ k \in Registered => IsArgumentValue(results[k])
            /\ k \in flags \ Registered => results[k].tag = "bool"

(***************************************************************************)
(* C8.  An integer-typed cast accepts a token exactly when the token is     *)
(* made of decimal digits only, and then yields its decimal value.          *)
(***************************************************************************)
C8_IntCastDigitsOnly ==
    lastCast.arg_type = "int" =>
        /\ lastCast.ok <=> AllDigits(lastCast.token)
        /\ lastCast.ok => lastCast.val = Decimal(lastCast.token)

(***************************************************************************)
(* C10.  Distinct parser classes and instances are independent: a           *)
(* registration made through one class leaves the definitions of every      *)
(* other class unchanged, and a step of one instance's parse leaves the     *)
(* definitions another instance sees, their consumed counts and its         *)
(* results unchanged.                                                        *)
(***************************************************************************)
\* the definitions instance p sees, with their consumed counts
DefinitionsOf(p) ==
    [k \in 1..Len(ArgumentsOf(ClassOf(p))) |->
        heap[ArgumentsOf(ClassOf(p))[k].obj]]

C10_Independent ==
    [][ /\ \A c \in Classes :
            ( \/ \E name \in ArgNames, def \in ArgDefs :
                    add_argument(c, name, def)
              \/ \E name \in FlagNames : add_flag(c, name) )
            => \A d \in Classes \ {c} :
                  /\ ArgumentsOf(d)' = ArgumentsOf(d)
                  /\ FlagsOf(d)' = FlagsOf(d)
        /\ \A p \in Instances :
            (cur = p \/ cur' = p)
            => \A q \in constructed \ {p} :
                  /\ DefinitionsOf(q)' = DefinitionsOf(q)
                  /\ parsed'[q] = parsed[q]
      ]_vars

(***************************************************************************)
(* C6.  Original statement: parser[name] ends the process for a name that   *)
(* was never registered, and returns results[name] for a registered name    *)
(* once a parse has succeeded.                                               *)
(***************************************************************************)
C6_GetItemByRegistration ==
    got # NoGet =>
        /\ got.key \notin flags \cup Registered => status = "exited"
        /\ (got.key \in flags \cup Registered /\ DOMAIN parsed[got.inst] # {})
             => /\ Running
                /\ got.key \in DOMAIN parsed[got.inst]
                /\ ret = parsed[got.inst][got.key]

(***************************************************************************)
(* C6, as amended.  parser[name] ends the process exactly when name is not  *)
(* a key of the instance's results (the names registered when its last      *)
(* parse began, plus every character a short-form cluster of that parse     *)
(* named); otherwise it returns results[name] and the process goes on.      *)
(***************************************************************************)
C6_GetItemByResults ==
    got # NoGet =>
        IF got.key \in DOMAIN parsed[got.inst]
        THEN Running /\ ret = parsed[got.inst][got.key]
        ELSE status = "exited" /\ err = "does not have parameter"

\* parser["z"] returned True although z was never registered
C6_Witness ==
    /\ got # NoGet
    /\ got.key = NameZ
    /\ Running
    /\ ret = PyBool(TRUE)

(***************************************************************************)
(* C5.  Vocabulary: the flags a token list names, and what a short-form     *)
(* token has to leave behind.                                                *)
(***************************************************************************)
\* token t names the flag f: --f, or a short-form cluster holding f
Names(t, f) ==
    \/ t = Long(f)
    \/ IsShort(t) /\ \E k \in 2..Len(t) : <<t[k]>> = f
NamedIn(ts, f) == \E k \in 1..Len(ts) : Names(ts[k], f)

\* right after the loop has handled a short-form token: every character is
\* set to True, the unregistered ones are warned about, nothing has aborted
ShortFormSetsAll ==
    (InParse /\ IsShort(loop_token)) =>
        /\ Running
        /\ \A k \in 2..Len(loop_token) :
              /\ <<loop_token[k]>> \in DOMAIN results
              /\ results[<<loop_token[k]>>] = PyBool(TRUE)
        /\ \A k \in 2..Len(loop_token) :
              <<loop_token[k]>> \notin flags
                 <=> <<"unrecognised flag", <<loop_token[k]>>>> \in warnings

\* the flags in fs that no token so far names are False
UnnamedStayFalse(fs) ==
    (InParse /\ Running) =>
        \A f \in fs :
            ~NamedIn(scanned, f) => results[f] = PyBool(FALSE)

Arity(j) == heap[RegisteredNonSwitch[j].obj].nargs
TypeOf(j) == heap[RegisteredNonSwitch[j].obj].arg_type

\* the number of tokens the arguments declared before the j-th one take
RECURSIVE Before(_)
Before(j) == IF j <= 1 THEN 0 ELSE Before(j - 1) + Arity(j - 1)

\* the argument the i-th bare token belongs to, 0 when there is none
Target(i) ==
    IF \E j \in 1..Len(RegisteredNonSwitch) :
          Before(j) < i /\ i <= Before(j) + Arity(j)
    THEN CHOOSE j \in 1..Len(RegisteredNonSwitch) :
            Before(j) < i /\ i <= Before(j) + Arity(j)
    ELSE 0

\* token t is a valid value of type ty, and the value it stands for
ValidFor(t, ty) == IsBare(t) /\ (ty = "int" => AllDigits(t))
ValueOf(t, ty) == IF ty = "int" THEN Decimal(t) ELSE PyStr(t)

\* what an argument of type ty and arity k holds after the tokens ts
Stored(ts, ty, k) ==
    IF k = 1 THEN ValueOf(ts[1], ty)
    ELSE PyList([m \in 1..k |-> ValueOf(ts[m], ty)])

(***************************************************************************)
(* C1.  On a parser whose arguments have consumed nothing yet, bare tokens  *)
(* go left to right to the first non-switch argument, in declaration        *)
(* order, that is not yet satisfied; once an argument of arity k has its k  *)
(* valid tokens, its result is the cast value (k = 1) or the list of the k  *)
(* cast values in input order; a switch argument receives none.             *)
(***************************************************************************)
C1_PositionalAssignment ==
    ( /\ InParse
      /\ fresh
      /\ \A i \in 1..Len(scanned) :
            /\ Target(i) # 0
            /\ ValidFor(scanned[i], TypeOf(Target(i))) )
    => /\ Running
       /\ \A j \in 1..Len(RegisteredNonSwitch) :
             Len(scanned) >= Before(j) + Arity(j)
             => results[RegisteredNonSwitch[j].key] =
                   Stored(SubSeq(scanned, Before(j) + 1, Before(j) + Arity(j)),
                          TypeOf(j), Arity(j))
       /\ \A k \in 1..Len(arguments) :
             heap[arguments[k].obj].switch
             => results[arguments[k].key] = PyNone

(***************************************************************************)
(* C4.  On a parser whose arguments have consumed nothing yet, for the      *)
(* first non-switch argument, of arity k: `--name v1 .. vk` and the bare    *)
(* tokens `v1 .. vk` alike are scanned to the end (the process ends early   *)
(* only because the token list does), and then results[name] holds the      *)
(* same stored form of v1 .. vk and the argument is satisfied.              *)
(***************************************************************************)
C4_LongEqualsPositional ==
    (InParse /\ fresh /\ RegisteredNonSwitch # <<>>) =>
        LET name == RegisteredNonSwitch[1].key
            obj == RegisteredNonSwitch[1].obj
            k == Arity(1)
            \* the values vs, the first `all` of the k, have been scanned
            Same(vs, all) ==
                /\ Running \/ (~all /\ err = "ended abruptly")
                /\ all => /\ results[name] = Stored(vs, TypeOf(1), k)
                          /\ satisfied(heap[obj])
        IN /\ ( /\ scanned # <<>>
                /\ Len(scanned) <= k + 1
                /\ scanned[1] = Long(name)
                /\ \A i \in 2..Len(scanned) :
                      ValidFor(scanned[i], TypeOf(1)) )
              => Same(Tail(scanned), Len(scanned) = k + 1)
           /\ ( /\ Len(scanned) <= k
                /\ \A i \in 1..Len(scanned) :
                      ValidFor(scanned[i], TypeOf(1)) )
              => Same(scanned, Len(scanned) = k)

(***************************************************************************)
(* C7.  A step of the token loop ends the process exactly when it meets a   *)
(* long-form token naming neither a flag nor an argument (taking no value   *)
(* for it), too few tokens after a long-form argument, a token that cannot  *)
(* be cast, or a bare token when every non-switch argument is satisfied;    *)
(* a short-form token and the post-parse check never end it.                *)
(***************************************************************************)
C7_StrictExits ==
    [][ LET t == loop_token'
            taken == Len(scanned') - Len(scanned)
            unrecognised ==
                IsLong(t) /\ Slice(t, 2) \notin flags \cup Registered
            long_argument ==
                IsLong(t) /\ Slice(t, 2) \notin flags
                          /\ Slice(t, 2) \in Registered
            no_slot ==
                /\ IsBare(t)
                /\ \A k \in 1..Len(RegisteredNonSwitch) :
                      satisfied(heap[RegisteredNonSwitch[k].obj])
            cast_failed == lastCast' # NoCast /\ ~lastCast'.ok
        IN /\ (InParse /\ Running /\ cur' = cur /\ scanned' # scanned) =>
                /\ status' = "exited" =>
                     \/ err' = "unrecognised argument"
                          /\ unrecognised /\ taken = 1
                     \/ err' = "ended abruptly" /\ long_argument
                          /\ taken - 1
                               < heap[ArgLookup(arguments, Slice(t, 2))].nargs
                     \/ err' = "cannot be converted" /\ cast_failed
                     \/ err' = "no remaining arguments" /\ no_slot
                /\ (unrecognised \/ no_slot \/ cast_failed)
                     => status' = "exited"
                /\ IsShort(t) => status' = "running"
           /\ (InParse /\ Running /\ cur' = NoInst) => status' = "running"
      ]_vars

====
